---- MODULE Spec2Model ----
(***************************************************************************)
(* A model of sylvia.py: the phoneme codec, word normalisation, the        *)
(* phonetic-pattern translator, the two dictionary iterators and the four  *)
(* queries.  Python 2 byte strings are sequences of byte values (0..255).  *)
(***************************************************************************)
EXTENDS Integers, Sequences, FiniteSets, TLC

VARIABLES text, binFile, binExists, iterate, pc, out

vars == <<text, binFile, binExists, iterate, pc, out>>

(***************************************************************************)
(* Bytes.                                                                  *)
(***************************************************************************)
\* the printable ASCII characters, in code order from 32 (space) to 126 (~);
\* the double quote, the backslash and the backtick are spelled out
Printable ==
  << " ", "!", "dquote", "#", "$", "%", "&", "'", "(", ")", "*", "+", ",", "-", ".", "/",
     "0", "1", "2", "3", "4", "5", "6", "7", "8", "9", ":", ";", "<", "=", ">", "?",
     "@", "A", "B", "C", "D", "E", "F", "G", "H", "I", "J", "K", "L", "M", "N", "O",
     "P", "Q", "R", "S", "T", "U", "V", "W", "X", "Y", "Z", "[", "backslash", "]", "^", "_",
     "backtick", "a", "b", "c", "d", "e", "f", "g", "h", "i", "j", "k", "l", "m", "n", "o",
     "p", "q", "r", "s", "t", "u", "v", "w", "x", "y", "z", "{", "|", "}", "~" >>

\* ord() of a one-character string
Ord(c) == 31 + (CHOOSE i \in 1..Len(Printable) : Printable[i] = c)

\* a Python byte string, written as a tuple of one-character strings
Str(s) == [i \in 1..Len(s) |-> Ord(s[i])]

\* "\n"
NL == 10

\* the metacharacters of the pattern engine, and the blank
Bar == Ord("|")
LParen == Ord("(")
RParen == Ord(")")
Star == Ord("*")
Dot == Ord(".")
Dollar == Ord("$")
QMark == Ord("?")
Colon == Ord(":")
Space == Ord(" ")

Byte == 0..255

\* string.digits, and the classes [A-Z], [a-z], [a-zA-Z] and \s
Digits == Ord("0")..Ord("9")
UpperCase == Ord("A")..Ord("Z")
LowerCase == Ord("a")..Ord("z")
Letters == UpperCase \cup LowerCase
Spaces == {9, 10, 11, 12, 13, Space}
NonDigits == Byte \ Digits
NonSpaces == Byte \ Spaces

IsDigit(b) == b \in Digits
IsUpper(b) == b \in UpperCase
IsLower(b) == b \in LowerCase
IsLetter(b) == b \in Letters
IsSpace(b) == b \in Spaces

ToUpper(b) == IF IsLower(b) THEN b - 32 ELSE b
ToLower(b) == IF IsUpper(b) THEN b + 32 ELSE b

\* str.upper()
Upper(s) == [i \in 1..Len(s) |-> ToUpper(s[i])]

\* str.capitalize(): first character upper-cased, the rest lower-cased
Capitalize(s) == [i \in 1..Len(s) |-> IF i = 1 THEN ToUpper(s[i]) ELSE ToLower(s[i])]

\* the elements of s that satisfy Keep, in order
RECURSIVE Filter(_, _)
Filter(s, keep) ==
  IF s = <<>> THEN <<>>
  ELSE (IF Head(s) \in keep THEN <<Head(s)>> ELSE <<>>) \o Filter(Tail(s), keep)

Range(s) == {s[i] : i \in 1..Len(s)}

\* first (1-based) position of x in the sequence s, 0 when absent
IndexOf(s, x) ==
  IF \E i \in 1..Len(s) : s[i] = x
  THEN CHOOSE i \in 1..Len(s) : s[i] = x /\ \A j \in 1..(i - 1) : s[j] # x
  ELSE 0

\* results of operations that may raise
Ok(v) == [exc |-> "none", val |-> v]
Raise(e) == [exc |-> e, val |-> <<>>]

\* a list comprehension over calls that may raise: the list of the values, or
\* the exception of the first call that raised
FirstRaised(each) == CHOOSE i \in 1..Len(each) : each[i].exc # "none" /\ \A j \in 1..(i - 1) : each[j].exc = "none"

Gather(each) ==
  IF \E i \in 1..Len(each) : each[i].exc # "none"
  THEN Raise(each[FirstRaised(each)].exc)
  ELSE Ok([i \in 1..Len(each) |-> each[i].val])

\* the largest element of the set S of integers, d when S is empty
MaxOr(S, d) == IF S = {} THEN d ELSE CHOOSE k \in S : \A j \in S : j <= k

(***************************************************************************)
(* Phoneme table and codec.                                                *)
(***************************************************************************)
PHONEME_TABLE ==
  << Str(<<"A","A">>), Str(<<"A","E">>), Str(<<"A","H">>), Str(<<"A","O">>),
     Str(<<"A","W">>), Str(<<"A","Y">>), Str(<<"B">>), Str(<<"C","H">>),
     Str(<<"D">>), Str(<<"D","H">>), Str(<<"E","H">>), Str(<<"E","R">>),
     Str(<<"E","Y">>), Str(<<"F">>), Str(<<"G">>), Str(<<"H","H">>),
     Str(<<"I","H">>), Str(<<"I","Y">>), Str(<<"J","H">>), Str(<<"K">>),
     Str(<<"L">>), Str(<<"M">>), Str(<<"N">>), Str(<<"N","G">>),
     Str(<<"O","W">>), Str(<<"O","Y">>), Str(<<"P">>), Str(<<"R">>),
     Str(<<"S">>), Str(<<"S","H">>), Str(<<"T">>), Str(<<"T","H">>),
     Str(<<"U","H">>), Str(<<"U","W">>), Str(<<"V">>), Str(<<"W">>),
     Str(<<"Y">>), Str(<<"Z">>), Str(<<"Z","H">>) >>

VOWELS ==
  << Str(<<"A","A">>), Str(<<"A","E">>), Str(<<"A","H">>), Str(<<"A","O">>),
     Str(<<"A","W">>), Str(<<"A","Y">>), Str(<<"E","H">>), Str(<<"E","R">>),
     Str(<<"E","Y">>), Str(<<"I","H">>), Str(<<"I","Y">>), Str(<<"O","W">>),
     Str(<<"O","Y">>), Str(<<"U","H">>), Str(<<"U","W">>) >>

\* chr( 128 + ... ) / ord( ... ) - 128
CodeBase == 128

isVowelSound(phonemeString) == phonemeString \in Range(VOWELS)

\* phonemeString.translate( None, string.digits ).upper()
sanitizePhonemeString(phonemeString) ==
  Upper(Filter(phonemeString, NonDigits))

\* chr( 128 + index ) for the 1-based position i that list.index found;
\* list.index raises ValueError when the element is absent (i = 0)
EncodeIndex(i) == IF i = 0 THEN Raise("ValueError") ELSE Ok(CodeBase + (i - 1))

encodePhonemeString(phonemeString) ==
  EncodeIndex(IndexOf(PHONEME_TABLE, sanitizePhonemeString(phonemeString)))

\* list[ k ] for a Python list: a negative k counts from the end
ListItem(list, k) ==
  IF k >= 0 /\ k < Len(list) THEN Ok(list[k + 1])
  ELSE IF k < 0 /\ k >= -Len(list) THEN Ok(list[Len(list) + k + 1])
  ELSE Raise("IndexError")

\* sanitizePhonemeString applied to the item found, if one was found
Sanitized(item) == IF item.exc = "none" THEN Ok(sanitizePhonemeString(item.val)) ELSE item

\* decodePhonemeByte with the table indexed one place too low
decodePhonemeByte_OffByOne(phonemeByte) ==
  Sanitized(ListItem(PHONEME_TABLE, phonemeByte - CodeBase - 1))

decodePhonemeByte(phonemeByte) ==
  Sanitized(ListItem(PHONEME_TABLE, phonemeByte - CodeBase))

\* "".join( [ encodePhonemeString( p ) for p in pronunciationTokens ] )
encodePronunciation(pronunciationTokens) ==
  Gather([i \in 1..Len(pronunciationTokens) |-> encodePhonemeString(pronunciationTokens[i])])

\* [ decodePhonemeByte( x ) for x in pronunciationBuffer ]
decodePronunciation(pronunciationBuffer) ==
  Gather([i \in 1..Len(pronunciationBuffer) |-> decodePhonemeByte(pronunciationBuffer[i])])

(***************************************************************************)
(* Word normalisation.                                                     *)
(***************************************************************************)
\* (?:\(\d\))+ matched against all of s
IsMarkers(s) ==
  /\ Len(s) >= 3
  /\ Len(s) % 3 = 0
  /\ \A i \in 1..Len(s) :
       IF i % 3 = 1 THEN s[i] = LParen
       ELSE IF i % 3 = 2 THEN IsDigit(s[i])
       ELSE s[i] = RParen

\* (.*)(?:\(\d\))+$ matches word with the first k bytes as group 1: a prefix
\* without newline, then one or more markers up to the end of the string or
\* up to a final newline
Group1(word, k) ==
  /\ \A i \in 1..k : word[i] # NL
  /\ \/ IsMarkers(SubSeq(word, k + 1, Len(word)))
     \/ /\ Len(word) > k
        /\ word[Len(word)] = NL
        /\ IsMarkers(SubSeq(word, k + 1, Len(word) - 1))

\* DUPLICATE_STRIPPING_REGEX.match( word ): the length of group 1, -1 when
\* there is no match; the greedy (.*) takes the longest prefix that matches
DUPLICATE_STRIPPING_REGEX(word) == MaxOr({k \in 0..Len(word) : Group1(word, k)}, -1)

\* word = needStrip.group( 1 ) when there is a match
Stripped(word, needStrip) == IF needStrip >= 0 THEN SubSeq(word, 1, needStrip) ELSE word

sanitizeWord(word) == Capitalize(Stripped(word, DUPLICATE_STRIPPING_REGEX(word)))

(***************************************************************************)
(* The pattern translator.                                                 *)
(***************************************************************************)
\* sep.join( parts )
RECURSIVE Join(_, _)
Join(parts, sep) ==
  IF parts = <<>> THEN <<>>
  ELSE IF Len(parts) = 1 THEN parts[1]
  ELSE parts[1] \o sep \o Join(Tail(parts), sep)

\* [ encodePhonemeString( x ) for x in ... ] as one-byte strings
EncodedUnits(symbols) == [i \in 1..Len(symbols) |-> <<encodePhonemeString(symbols[i]).val>>]

Consonants == Filter(PHONEME_TABLE, Range(PHONEME_TABLE) \ Range(VOWELS))

\* "(?:" + "|".join( units ) + ")"
AnyOf(units) == <<LParen, QMark, Colon>> \o Join(units, <<Bar>>) \o <<RParen>>

ANY_VOWEL_SOUND_REGEX_TEXT == AnyOf(EncodedUnits(VOWELS))

ANY_CONSONANT_SOUND_REGEX_TEXT == AnyOf(EncodedUnits(Consonants))

\* "(?:" + consonant + "*" + vowel + consonant + "*)"
Syllable(consonant, vowel) ==
  <<LParen, QMark, Colon>> \o consonant \o <<Star>> \o vowel \o consonant \o <<Star, RParen>>

ANY_SYLLABLE_REGEX_TEXT == Syllable(ANY_CONSONANT_SOUND_REGEX_TEXT, ANY_VOWEL_SOUND_REGEX_TEXT)

Hash == Ord("#")
At == Ord("@")
Percent == Ord("%")
Wildcards == {Percent, Hash, At}

\* every byte but the blank, for token.replace( " ", "" )
NonBlanks == Byte \ {Space}

\* [^a-zA-Z#@%]
Separators == Byte \ (Letters \cup Wildcards)

\* the length of the longest prefix of s whose bytes all lie in the set cls
RECURSIVE RunLen(_, _)
RunLen(s, cls) ==
  IF s = <<>> \/ Head(s) \notin cls THEN 0 ELSE 1 + RunLen(Tail(s), cls)

\* re.split( "(%|#|@|(?:[^a-zA-Z#@%]+))", t ): the pieces between separators
\* (runs of letters, possibly empty) alternating with the separators, a
\* separator being one wildcard marker or a run of other non-letters
RECURSIVE SplitPattern(_)

\* the length of the separator at the head of rest
SepLen(rest) == IF rest[1] \in Wildcards THEN 1 ELSE RunLen(rest, Separators)

\* rest starts with a separator of m bytes
SplitSep(rest, m) ==
  <<SubSeq(rest, 1, m)>> \o SplitPattern(SubSeq(rest, m + 1, Len(rest)))

\* t starts with k letters
SplitPiece(t, k) ==
  IF k = Len(t) THEN <<t>>
  ELSE <<SubSeq(t, 1, k)>> \o SplitSep(SubSeq(t, k + 1, Len(t)), SepLen(SubSeq(t, k + 1, Len(t))))

SplitPattern(t) == SplitPiece(t, RunLen(t, Letters))

\* a token that is no wildcard: its code unit when it is a phoneme, else the
\* token without blanks
EncodePhoneme(token, tryPhoneme) ==
  IF tryPhoneme \in Range(PHONEME_TABLE)
  THEN <<encodePhonemeString(tryPhoneme).val>>
  ELSE Filter(token, NonBlanks)

\* the translation of one token
EncodeToken(token) ==
  IF token = <<Hash>> THEN ANY_CONSONANT_SOUND_REGEX_TEXT
  ELSE IF token = <<At>> THEN ANY_VOWEL_SOUND_REGEX_TEXT
  ELSE IF token = <<Percent>> THEN ANY_SYLLABLE_REGEX_TEXT
  ELSE EncodePhoneme(token, sanitizePhonemeString(token))

\* "".join( encodedTokens )
EncodeTokens(tokens) == Join([i \in 1..Len(tokens) |-> EncodeToken(tokens[i])], <<>>)

preprocessPhoneticRegex(regexTextUnpreprocessed) ==
  EncodeTokens(SplitPattern(regexTextUnpreprocessed))

(***************************************************************************)
(* The pattern engine: re.compile and re.match for the syntax the model's  *)
(* patterns can contain: literals, ".", "*", "|", "(?:" ... ")" and "$".   *)
(* The patterns of the model never hold one of + ? [ ] { } ^ or a          *)
(* backslash outside "(?:", and never repeat a group that can be empty.    *)
(***************************************************************************)
ReFail == [ok |-> FALSE, node |-> [t |-> "empty"], next |-> 0]
ReOk(n, j) == [ok |-> TRUE, node |-> n, next |-> j]

RECURSIVE ParseAlt(_, _), ParseSeq(_, _), ParseAtom(_, _)

\* the branch first followed by the parsed alternatives r
AltJoin(first, r) ==
  IF r.ok THEN ReOk([t |-> "alt", a |-> first, b |-> r.node], r.next) ELSE r

\* after the branch s: more alternatives when a "|" follows
AltTail(re, s) ==
  IF s.ok /\ s.next <= Len(re) /\ re[s.next] = Bar
  THEN AltJoin(s.node, ParseAlt(re, s.next + 1))
  ELSE s

\* branch ( "|" branch )*
ParseAlt(re, i) == AltTail(re, ParseSeq(re, i))

\* the item followed by the parsed rest r of the branch
SeqJoin(item, r) ==
  IF r.ok THEN ReOk([t |-> "cat", a |-> item, b |-> r.node], r.next) ELSE r

\* a "*" follows the atom a
Starred(re, a) == a.next <= Len(re) /\ re[a.next] = Star

\* after the atom a: "*" on "$" is the error "nothing to repeat", "*" on a
\* repeat is "multiple repeat"
SeqItem(re, a) ==
  IF ~a.ok THEN a
  ELSE IF ~Starred(re, a) THEN SeqJoin(a.node, ParseSeq(re, a.next))
  ELSE IF a.node.t = "end" THEN ReFail
  ELSE IF a.next + 1 <= Len(re) /\ re[a.next + 1] = Star THEN ReFail
  ELSE SeqJoin([t |-> "star", a |-> a.node], ParseSeq(re, a.next + 1))

\* a branch: items, each an atom with an optional "*"
ParseSeq(re, i) ==
  IF i > Len(re) \/ re[i] \in {Bar, RParen} THEN ReOk([t |-> "empty"], i)
  ELSE SeqItem(re, ParseAtom(re, i))

\* the first position inside the group that opens at i: after "(?:" or "("
GroupStart(re, i) ==
  IF i + 2 <= Len(re) /\ re[i + 1] = QMark /\ re[i + 2] = Colon THEN i + 3 ELSE i + 1

\* a group must be closed
GroupEnd(re, inner) ==
  IF inner.ok /\ inner.next <= Len(re) /\ re[inner.next] = RParen
  THEN ReOk(inner.node, inner.next + 1)
  ELSE ReFail

\* one atom; a leading "*" has nothing to repeat
ParseAtom(re, i) ==
  IF re[i] = LParen THEN GroupEnd(re, ParseAlt(re, GroupStart(re, i)))
  ELSE IF re[i] = Star THEN ReFail
  ELSE IF re[i] = Dot THEN ReOk([t |-> "any"], i + 1)
  ELSE IF re[i] = Dollar THEN ReOk([t |-> "end"], i + 1)
  ELSE ReOk([t |-> "lit", c |-> re[i]], i + 1)

\* the pattern must be parsed to its end
Whole(re, r) == IF r.ok /\ r.next = Len(re) + 1 THEN Ok(r.node) ELSE Raise("error")

\* re.compile( re ): the parsed pattern, or re.error
Compile(re) == Whole(re, ParseAlt(re, 1))

RECURSIVE Ends(_, _, _), StarEnds(_, _, _, _)

\* the positions at which a match of node that starts at position i of s can end
Ends(node, s, i) ==
  IF node.t = "empty" THEN {i}
  ELSE IF node.t = "lit" THEN (IF i <= Len(s) /\ s[i] = node.c THEN {i + 1} ELSE {})
  ELSE IF node.t = "any" THEN (IF i <= Len(s) /\ s[i] # NL THEN {i + 1} ELSE {})
  ELSE IF node.t = "end"
       THEN (IF i = Len(s) + 1 \/ (i = Len(s) /\ s[i] = NL) THEN {i} ELSE {})
  ELSE IF node.t = "cat" THEN UNION {Ends(node.b, s, j) : j \in Ends(node.a, s, i)}
  ELSE IF node.t = "alt" THEN Ends(node.a, s, i) \cup Ends(node.b, s, i)
  ELSE StarEnds(node.a, s, {i}, {i})

\* the positions seen, and those new ones that one more repetition reaches
StarGrow(body, s, step, seen) ==
  IF step = {} THEN seen ELSE StarEnds(body, s, step, seen \cup step)

StarEnds(body, s, frontier, seen) ==
  StarGrow(body, s, (UNION {Ends(body, s, j) : j \in frontier}) \ seen, seen)

\* regex.match( s ): a match that starts at the first byte of s
Match(regex, s) == Ends(regex, s, 1) # {}

(***************************************************************************)
(* Sorting.                                                                *)
(***************************************************************************)
\* byte-string order, as Python compares str values
RECURSIVE StrLess(_, _)
StrLess(x, y) ==
  IF y = <<>> THEN FALSE
  ELSE IF x = <<>> THEN TRUE
  ELSE IF Head(x) # Head(y) THEN Head(x) < Head(y)
  ELSE StrLess(Tail(x), Tail(y))

Least(S) == CHOOSE x \in S : \A y \in S \ {x} : StrLess(x, y)

RECURSIVE Sorted(_)

LeastFirst(S, m) == <<m>> \o Sorted(S \ {m})

\* sorted( S ) for a set S of byte strings
Sorted(S) == IF S = {} THEN <<>> ELSE LeastFirst(S, Least(S))

(***************************************************************************)
(* The dictionary iterators.  A scan is the sequence of (word,              *)
(* pronunciation) pairs handed to the callback, and the exception that      *)
(* ended the scan, if any.  No callback of this program raises.             *)
(***************************************************************************)
Scanned(e, ps) == [exc |-> e, pairs |-> ps]

\* the number of bytes of s before the first byte sep
RECURSIVE RunUntil(_, _)
RunUntil(s, sep) ==
  IF s = <<>> \/ Head(s) = sep THEN 0 ELSE 1 + RunUntil(Tail(s), sep)

RECURSIVE SplitOn(_, _)

\* the first k bytes of s hold no sep
SplitAt(s, sep, k) ==
  IF k = Len(s) THEN <<s>>
  ELSE <<SubSeq(s, 1, k)>> \o SplitOn(SubSeq(s, k + 2, Len(s)), sep)

\* the pieces of s between occurrences of the byte sep: s.split( sep )
SplitOn(s, sep) == SplitAt(s, sep, RunUntil(s, sep))

RECURSIVE Parts(_)

\* rest starts with a part of k bytes
PartThen(rest, k) == <<SubSeq(rest, 1, k)>> \o Parts(SubSeq(rest, k + 1, Len(rest)))

\* rest starts with no white space
PartsFrom(rest) == IF rest = <<>> THEN <<>> ELSE PartThen(rest, RunLen(rest, NonSpaces))

\* [ x for x in re.split( r"\s+", line ) if len( x ) > 0 ]
Parts(line) == PartsFrom(SubSeq(line, RunLen(line, Spaces) + 1, Len(line)))

CommentMark == Str(<<";", ";", ";">>)

IsComment(line) == Len(line) >= 3 /\ SubSeq(line, 1, 3) = CommentMark

RECURSIVE TextFrom(_, _, _)

\* callback( word, pronunciation ), unless encodePronunciation raised
TextEntry(lines, i, acc, word, pronunciation) ==
  IF pronunciation.exc # "none" THEN Scanned(pronunciation.exc, acc)
  ELSE TextFrom(lines, i + 1, Append(acc, <<word, pronunciation.val>>))

\* parts[0] raises IndexError on a line without a part
TextLine(lines, i, acc, parts) ==
  IF parts = <<>> THEN Scanned("IndexError", acc)
  ELSE TextEntry(lines, i, acc, sanitizeWord(parts[1]), encodePronunciation(Tail(parts)))

\* the scan of the text lines from line i on, after the pairs in acc
TextFrom(lines, i, acc) ==
  IF i > Len(lines) THEN Scanned("none", acc)
  ELSE IF IsComment(lines[i]) THEN TextFrom(lines, i + 1, acc)
  ELSE TextLine(lines, i, acc, Parts(lines[i]))

iter__text(lines) == TextFrom(lines, 1, <<>>)

RECURSIVE BinFrom(_, _, _)

\* word, pronunciation = line.split( " " ) raises ValueError unless the line
\* has two fields
BinLine(lines, i, acc, fields) ==
  IF Len(fields) # 2 THEN Scanned("ValueError", acc)
  ELSE BinFrom(lines, i + 1, Append(acc, <<fields[1], fields[2]>>))

\* the scan of the lines of a compiled file from line i on
BinFrom(lines, i, acc) ==
  IF i > Len(lines) THEN Scanned("none", acc)
  ELSE IF Len(lines[i]) = 0 THEN BinFrom(lines, i + 1, acc)
  ELSE BinLine(lines, i, acc, SplitOn(lines[i], Space))

iter__bin(buf) == BinFrom(SplitOn(buf, NL), 1, <<>>)

\* saveBin without the line terminator
saveBin_NoNewline(scan) ==
  [exc |-> scan.exc,
   val |-> Join([i \in 1..Len(scan.pairs) |->
                   scan.pairs[i][1] \o <<Space>> \o scan.pairs[i][2]], <<>>)]

\* the bytes saveBin writes for a scan: one line per pair handed to cb before
\* the scan ended, and the exception of the scan
saveBin(scan) ==
  [exc |-> scan.exc,
   val |-> Join([i \in 1..Len(scan.pairs) |->
                   scan.pairs[i][1] \o <<Space>> \o scan.pairs[i][2] \o <<NL>>], <<>>)]

(***************************************************************************)
(* The queries, as functions of a scan.                                    *)
(***************************************************************************)
\* the words cb appends: those of the pairs whose pronunciation regex matches
MatchingWords(pairs, regex) ==
  {pairs[i][1] : i \in {j \in 1..Len(pairs) : Match(regex, pairs[j][2])}}

\* the scan with the compiled pattern; re.compile may have raised
Search(scan, regex) ==
  IF regex.exc # "none" THEN Raise(regex.exc)
  ELSE IF scan.exc # "none" THEN Raise(scan.exc)
  ELSE Ok(Sorted(MatchingWords(scan.pairs, regex.val)))

\* the pattern is compiled, with "$" appended, before the scan starts
regexSearch(scan, regexTextUnpreprocessed) ==
  Search(scan, Compile(preprocessPhoneticRegex(regexTextUnpreprocessed) \o <<Dollar>>))

\* the entries cb keeps: the callback normalises the entry's word once more
RECURSIVE SelectPairs(_, _)
SelectPairs(pairs, cbword) ==
  IF pairs = <<>> THEN <<>>
  ELSE (IF cbword = sanitizeWord(Head(pairs)[1]) THEN <<Head(pairs)[2]>> ELSE <<>>)
         \o SelectPairs(Tail(pairs), cbword)

\* [ decodePronunciation( p ) for p in cb.pronunciations ]
DecodeAll(pronunciations) ==
  Gather([i \in 1..Len(pronunciations) |-> decodePronunciation(pronunciations[i])])

findPronunciations(scan, word) ==
  IF scan.exc # "none" THEN Raise(scan.exc)
  ELSE DecodeAll(SelectPairs(scan.pairs, sanitizeWord(word)))

\* [ isVowelSound( x ) for x in pronunciation ].index( True ), 1-based; 0 when
\* the list holds no True (list.index raises ValueError)
FirstVowel(pronunciation) ==
  IndexOf([i \in 1..Len(pronunciation) |-> isVowelSound(pronunciation[i])], TRUE)

\* sorted( [ x for x in set( ret ) if x != word ] ), unless the loop raised
Others(ret, word) ==
  IF ret.exc # "none" THEN ret ELSE Ok(Sorted({x \in ret.val : x # word}))

RECURSIVE RhymeLoop(_, _, _, _)

\* ret += the words found
RhymeNext(scan, prons, i, ret, found) ==
  IF found.exc # "none" THEN found
  ELSE RhymeLoop(scan, prons, i + 1, ret \cup Range(found.val))

\* the pronunciation's first vowel is at k: search ".* " + " ".join( mustEndWith )
RhymeSearch(scan, prons, i, ret, k) ==
  IF k = 0 THEN Raise("ValueError")
  ELSE RhymeNext(scan, prons, i, ret,
                 regexSearch(scan, <<Dot, Star, Space>>
                                     \o Join(SubSeq(prons[i], k, Len(prons[i])), <<Space>>)))

\* the loop of getRhymes over the pronunciations from the i-th on
RhymeLoop(scan, prons, i, ret) ==
  IF i > Len(prons) THEN Ok(ret)
  ELSE RhymeSearch(scan, prons, i, ret, FirstVowel(prons[i]))

\* the loop over the pronunciations a lookup found, unless the lookup raised
RhymesFor(scan, word, prons) ==
  IF prons.exc # "none" THEN prons
  ELSE Others(RhymeLoop(scan, prons.val, 1, {}), sanitizeWord(word))

getRhymes(scan, word) == RhymesFor(scan, word, findPronunciations(scan, word))

RECURSIVE VowelLoop(_, _, _, _)

\* ret += the words found
VowelNext(scan, prons, i, ret, found) ==
  IF found.exc # "none" THEN found
  ELSE VowelLoop(scan, prons, i + 1, ret \cup Range(found.val))

\* the loop of getVowelMatches over the pronunciations from the i-th on:
\* search ".*" + "#*".join( vowels ) + ".*"
VowelLoop(scan, prons, i, ret) ==
  IF i > Len(prons) THEN Ok(ret)
  ELSE VowelNext(scan, prons, i, ret,
                 regexSearch(scan, <<Dot, Star>>
                                     \o Join(Filter(prons[i], Range(VOWELS)), <<Hash, Star>>)
                                     \o <<Dot, Star>>))

\* the loop over the pronunciations a lookup found, unless the lookup raised
VowelMatchesFor(scan, word, prons) ==
  IF prons.exc # "none" THEN prons
  ELSE Others(VowelLoop(scan, prons.val, 1, {}), sanitizeWord(word))

getVowelMatches(scan, word) == VowelMatchesFor(scan, word, findPronunciations(scan, word))

(***************************************************************************)
(* Inputs.                                                                 *)
(***************************************************************************)
\* the largest number of lines of a text dictionary
MaxLines == 2

\* the largest number of tokens of a pronunciation passed to the codec
MaxPronLen == 2

\* the largest number of trailing (digit) markers of a word passed to sanitizeWord
MaxMarkers == 2

Sp == <<Space>>

\* one line of a text dictionary: the word, two blanks, the phonemes
Line(word, phonemes) ==
  word \o (IF phonemes = <<>> THEN <<>> ELSE Sp \o Sp \o Join(phonemes, Sp)) \o <<NL>>

AE == Str(<<"A", "E">>)
AE1 == Str(<<"A", "E", "1">>)
AA == Str(<<"A", "A">>)
K == Str(<<"K">>)
T == Str(<<"T">>)
SH == Str(<<"S", "H">>)

LinePool ==
  { Line(Str(<<"a">>), <<AE1, T>>),
    Line(Str(<<"b">>), <<K, AE, T>>),
    Line(Str(<<"a", "(", "1", ")">>), <<AE, K, AA>>),
    Line(Str(<<"a", "(", "1", ")", "(", "2", ")">>), <<AE>>),
    Line(Str(<<"d">>), <<AE, T, AA>>),
    Line(Str(<<"c">>), <<SH>>),
    Line(Str(<<"b">>), <<>>),
    Line(Str(<<"c">>), <<Str(<<"Q">>)>>),
    Str(<<";", ";", ";", " ", "c">>) \o <<NL>>,
    <<NL>> }

RECURSIVE SeqsUpTo(_, _)
SeqsUpTo(S, n) ==
  IF n = 0 THEN {<<>>}
  ELSE LET shorter == SeqsUpTo(S, n - 1)
       IN  shorter \cup {Append(s, x) : s \in shorter, x \in S}

Dictionaries == SeqsUpTo(LinePool, MaxLines)

QueryWords ==
  { Str(<<"a">>), Str(<<"B">>), Str(<<"c">>), Str(<<"d">>), Str(<<"z">>),
    Str(<<"a", "(", "1", ")", "(", "2", ")">>) }

Patterns ==
  { Str(<<"K", " ", "A", "E", " ", "T">>),
    Str(<<"k", " ", "a", "e", "1", " ", "t">>),
    Str(<<".", "*">>),
    Str(<<"K", "|", "A", "E">>),
    Str(<<"A", "E", "|", "K">>),
    Str(<<"#", "*", "@", "#">>),
    Str(<<"%">>),
    Str(<<"%", "%">>),
    Str(<<"@", ".">>),
    Str(<<"S", "H", "|">>),
    Str(<<"K", "X">>),
    Str(<<"K", "*", "*">>),
    Str(<<" ", "*">>),
    <<>> }

(***************************************************************************)
(* The program: the __main__ block, one run.                               *)
(***************************************************************************)
NoOut == [op |-> "none", arg |-> <<>>, exc |-> "none", val |-> <<>>]
Out(o, a, r) == [op |-> o, arg |-> a, exc |-> r.exc, val |-> r.val]

Init ==
  /\ text \in Dictionaries
  /\ binFile = <<>>
  /\ binExists = FALSE
  /\ iterate = "text"
  /\ pc = "start"
  /\ out = NoOut

\* self.iterate( cb ) of the dictionary the queries run on
Iterate == IF iterate = "text" THEN iter__text(text) ELSE iter__bin(binFile)

\* args.optimize_dictionary: compile the text dictionary and query the
\* compiled file; an exception of the scan ends the run
OptimizeDictionary ==
  /\ pc = "start"
  /\ \E r \in {saveBin(iter__text(text))} :
         /\ binFile' = r.val
         /\ binExists' = TRUE
         /\ IF r.exc = "none"
            THEN /\ iterate' = "bin"
                 /\ pc' = "query"
                 /\ out' = out
            ELSE /\ iterate' = iterate
                 /\ pc' = "done"
                 /\ out' = Out("saveBin", <<>>, Raise(r.exc))
  /\ UNCHANGED text

Query(o, a, r) ==
  /\ pc \in {"start", "query"}
  /\ out' = Out(o, a, r)
  /\ pc' = "done"
  /\ UNCHANGED <<text, binFile, binExists, iterate>>

RegexSearch == \E p \in Patterns : Query("regexSearch", p, regexSearch(Iterate, p))

LookupPronunciation ==
  \E w \in QueryWords : Query("findPronunciations", w, findPronunciations(Iterate, w))

GetRhymes == \E w \in QueryWords : Query("getRhymes", w, getRhymes(Iterate, w))

GetVowelMatches ==
  \E w \in QueryWords : Query("getVowelMatches", w, getVowelMatches(Iterate, w))

Next ==
  \/ OptimizeDictionary
  \/ RegexSearch
  \/ LookupPronunciation
  \/ GetRhymes
  \/ GetVowelMatches

Spec == Init /\ [][Next]_vars

(***************************************************************************)
(* The library: one call of a function of the codec or of sanitizeWord.    *)
(***************************************************************************)
\* the code units of the table
ValidUnits == CodeBase..(CodeBase + Len(PHONEME_TABLE) - 1)

\* phoneme tokens as a dictionary or a caller spells them: the table's
\* symbols, with a stress digit, in lower case, and two unknown ones
SymbolInputs ==
  Range(PHONEME_TABLE)
    \cup {sym \o <<d>> : sym \in Range(PHONEME_TABLE), d \in {Ord("0"), Ord("1"), Ord("2")}}
    \cup {[i \in 1..Len(sym) |-> ToLower(sym[i])] : sym \in Range(PHONEME_TABLE)}
    \cup {<<>>, Str(<<"Q">>)}

PronSymbols == {AA, AE1, K, Str(<<"Z", "H">>), Str(<<"z", "h">>), Str(<<"Q">>)}

\* code units at and next to the ends of the table's range and of the range
\* a negative list index accepts
BufBytes ==
  { CodeBase - Len(PHONEME_TABLE) - 1, CodeBase - Len(PHONEME_TABLE), CodeBase - 1,
    CodeBase, CodeBase + Len(PHONEME_TABLE) - 1, CodeBase + Len(PHONEME_TABLE) }

Markers == {Str(<<"(", "1", ")">>), Str(<<"(", "2", ")">>)}

WordInputs ==
  { stem \o Join(ms, <<>>) \o tail :
      stem \in {<<>>, Str(<<"a">>), Str(<<"B">>), Str(<<"a", "B">>), Str(<<"(", "1", ")", "a">>)},
      ms \in SeqsUpTo(Markers, MaxMarkers),
      tail \in {<<>>, <<NL>>, Str(<<"x">>)} }

InitLib ==
  /\ text = <<>>
  /\ binFile = <<>>
  /\ binExists = FALSE
  /\ iterate = "text"
  /\ pc = "call"
  /\ out = NoOut

Call(o, a, r) ==
  /\ pc = "call"
  /\ out' = Out(o, a, r)
  /\ pc' = "done"
  /\ UNCHANGED <<text, binFile, binExists, iterate>>

EncodePhonemeString ==
  \E sym \in SymbolInputs : Call("encodePhonemeString", sym, encodePhonemeString(sym))

DecodePhonemeByte ==
  \E b \in Byte : Call("decodePhonemeByte", b, decodePhonemeByte(b))

EncodePronunciation ==
  \E tokens \in SeqsUpTo(PronSymbols, MaxPronLen) :
    Call("encodePronunciation", tokens, encodePronunciation(tokens))

DecodePronunciation ==
  \E buf \in SeqsUpTo(BufBytes, MaxPronLen) :
    Call("decodePronunciation", buf, decodePronunciation(buf))

SanitizeWord == \E w \in WordInputs : Call("sanitizeWord", w, Ok(sanitizeWord(w)))

NextLib ==
  \/ EncodePhonemeString
  \/ DecodePhonemeByte
  \/ EncodePronunciation
  \/ DecodePronunciation
  \/ SanitizeWord

SpecLib == InitLib /\ [][NextLib]_vars

(***************************************************************************)
(* Properties.                                                             *)
(***************************************************************************)
\* the scan of the text source
TextScan == iter__text(text)

\* the entries of the dictionary: the pairs the text scan hands over
Entries == TextScan.pairs

\* the encoded pronunciations of the entries whose normalised word is w, in
\* source order
RECURSIVE EntriesOf(_, _)
EntriesOf(pairs, w) ==
  IF pairs = <<>> THEN <<>>
  ELSE (IF Head(pairs)[1] = w THEN <<Head(pairs)[2]>> ELSE <<>>) \o EntriesOf(Tail(pairs), w)

\* every entry of the text source has at least one phoneme and all its
\* phonemes are in the table
AllEntriesValid ==
  /\ TextScan.exc = "none"
  /\ \A i \in 1..Len(Entries) : Entries[i][2] # <<>>

\* the table's symbol of a code unit of the table
SymbolOf(u) == PHONEME_TABLE[u - CodeBase + 1]

IsVowelUnit(u) == u \in ValidUnits /\ SymbolOf(u) \in Range(VOWELS)

\* the translated pattern matches all of s, from its first unit to its last
WholeMatch(pattern, s) ==
  LET regex == Compile(preprocessPhoneticRegex(pattern))
  IN  regex.exc = "none" /\ (Len(s) + 1) \in Ends(regex.val, s, 1)

\* C1: a word that pattern search returns has an entry whose whole encoded
\* pronunciation, first unit to last, is matched by the translated pattern
C1_WholeMatchOnly ==
  (pc = "done" /\ out.op = "regexSearch" /\ out.exc = "none")
    => \A w \in Range(out.val) :
         \E i \in 1..Len(Iterate.pairs) :
           Iterate.pairs[i][1] = w /\ WholeMatch(out.arg, Iterate.pairs[i][2])

\* the rhyme window of an encoded pronunciation: the suffix that starts at
\* its first vowel; <<>> when it has no vowel
Window(pron) ==
  LET vs == {i \in 1..Len(pron) : IsVowelUnit(pron[i])}
  IN  IF vs = {} THEN <<>>
      ELSE SubSeq(pron, CHOOSE i \in vs : \A j \in vs : i <= j, Len(pron))

EndsWith(pron, suffix) ==
  Len(suffix) <= Len(pron)
    /\ SubSeq(pron, Len(pron) - Len(suffix) + 1, Len(pron)) = suffix

\* the words other than w with an entry that ends with the rhyme window of an
\* entry of w
RhymesOf(w) ==
  {x \in {Entries[i][1] : i \in 1..Len(Entries)} \ {w} :
     \E i, j \in 1..Len(Entries) :
       /\ Entries[i][1] = x
       /\ Entries[j][1] = w
       /\ Window(Entries[j][2]) # <<>>
       /\ EndsWith(Entries[i][2], Window(Entries[j][2]))}

Present(w) == \E i \in 1..Len(Entries) : Entries[i][1] = w

\* C2: on a dictionary whose entries are all well formed, for a word of the
\* dictionary getRhymes returns exactly the sorted list
\* of the other words with an entry ending with the rhyme window of one of
\* the word's entries
C2_RhymesExact ==
  (pc = "done" /\ out.op = "getRhymes" /\ AllEntriesValid
     /\ Present(sanitizeWord(out.arg)))
    => (out.exc = "none" /\ out.val = Sorted(RhymesOf(sanitizeWord(out.arg))))

\* the vowels of an encoded pronunciation, in order
VowelUnits == {u \in ValidUnits : IsVowelUnit(u)}

VowelsOf(pron) == Filter(pron, VowelUnits)

\* pron[i] is the first of the vowels vs and the others follow in order, each
\* after a run of consonants only
RECURSIVE ChainFrom(_, _, _)
ChainFrom(pron, i, vs) ==
  /\ i <= Len(pron)
  /\ pron[i] = Head(vs)
  /\ \/ Len(vs) = 1
     \/ \E j \in (i + 1)..Len(pron) :
          /\ \A k \in (i + 1)..(j - 1) : ~IsVowelUnit(pron[k])
          /\ ChainFrom(pron, j, Tail(vs))

\* pron is (anything) V1 (consonants only) V2 ... Vn (anything)
HasVowelPattern(pron, vs) ==
  vs = <<>> \/ \E i \in 1..Len(pron) : ChainFrom(pron, i, vs)

VowelMatchesOf(w) ==
  {x \in {Entries[i][1] : i \in 1..Len(Entries)} \ {w} :
     \E i, j \in 1..Len(Entries) :
       /\ Entries[i][1] = x
       /\ Entries[j][1] = w
       /\ HasVowelPattern(Entries[i][2], VowelsOf(Entries[j][2]))}

\* C3: on a dictionary whose entries are all well formed, for a word of the
\* dictionary getVowelMatches returns another word iff
\* one of its entries has the vowels of one of the word's entries in order,
\* separated by consonants only
C3_VowelPattern ==
  (pc = "done" /\ out.op = "getVowelMatches" /\ AllEntriesValid
     /\ Present(sanitizeWord(out.arg)))
    => (out.exc = "none" /\ out.val = Sorted(VowelMatchesOf(sanitizeWord(out.arg))))

\* C4: on a dictionary whose entries are all well formed, exact lookup returns the decoded pronunciation of every entry whose
\* normalised word equals the normalised query word, one element per entry in
\* source order, and the empty list when there is none
C4_LookupAllEntries ==
  (pc = "done" /\ out.op = "findPronunciations" /\ AllEntriesValid)
    => LET found == EntriesOf(Entries, sanitizeWord(out.arg))
       IN  /\ out.exc = "none"
           /\ out.val = [i \in 1..Len(found) |->
                           [k \in 1..Len(found[i]) |-> SymbolOf(found[i][k])]]

\* C5: the codec is a bijection between the table and the code units 128..166
\* and encodePronunciation keeps the length of a sequence of valid symbols
DistinctUnits ==
  \A x, y \in Range(PHONEME_TABLE) :
    encodePhonemeString(x).val = encodePhonemeString(y).val => x = y

C5_CodecBijection ==
  /\ DistinctUnits
  /\ (out.op = "encodePhonemeString" /\ out.arg \in Range(PHONEME_TABLE))
       => /\ out.exc = "none"
          /\ out.val \in ValidUnits
          /\ decodePhonemeByte(out.val) = Ok(out.arg)
  /\ (out.op = "decodePhonemeByte" /\ out.arg \in ValidUnits)
       => /\ out.exc = "none"
          /\ out.val \in Range(PHONEME_TABLE)
          /\ encodePhonemeString(out.val) = Ok(out.arg)
  /\ (out.op = "encodePronunciation"
        /\ \A i \in 1..Len(out.arg) : sanitizePhonemeString(out.arg[i]) \in Range(PHONEME_TABLE))
       => /\ out.exc = "none"
          /\ Len(out.val) = Len(out.arg)
          /\ \A i \in 1..Len(out.val) : out.val[i] \in ValidUnits

C5_Witness ==
  /\ out.op = "decodePhonemeByte"
  /\ out.arg = CodeBase + Len(PHONEME_TABLE) - 1
  /\ out.val = Str(<<"Z", "H">>)

\* the result of the query op on a scan
QueryOn(scan, op, arg) ==
  IF op = "regexSearch" THEN regexSearch(scan, arg)
  ELSE IF op = "findPronunciations" THEN findPronunciations(scan, arg)
  ELSE IF op = "getRhymes" THEN getRhymes(scan, arg)
  ELSE getVowelMatches(scan, arg)

\* C6: when the text source scans without error, the scan of the compiled
\* file hands over the same pairs in the same order, and a query on the
\* compiled file returns what it returns on the text source
C6_SameOnBothSources ==
  (binExists /\ TextScan.exc = "none")
    => /\ iter__bin(binFile) = TextScan
       /\ (pc = "done" /\ iterate = "bin")
            => out = Out(out.op, out.arg, QueryOn(TextScan, out.op, out.arg))

C6_Witness ==
  /\ pc = "done"
  /\ binExists
  /\ iterate = "bin"
  /\ Len(TextScan.pairs) = 2
  /\ out.op = "getRhymes"
  /\ out.exc = "none"
  /\ out.val # <<>>

\* a line that holds a word and no phoneme
ZeroPhonemeLine(line) == ~IsComment(line) /\ Len(Parts(line)) = 1

\* C7: a run on a text source with a line that holds a word and zero phonemes
\* ends with an error, whatever the query
C7_ZeroPhonemesRaise ==
  (pc = "done" /\ \E i \in 1..Len(text) : ZeroPhonemeLine(text[i]))
    => out.exc # "none"

\* no entry's word is the query word w, normalised once or twice
Absent(w) ==
  \A i \in 1..Len(Entries) :
    Entries[i][1] # sanitizeWord(w) /\ sanitizeWord(Entries[i][1]) # sanitizeWord(w)

\* C8: on a dictionary whose entries all have valid phonemes, rhyme search and
\* vowel-pattern search return a list, never raise, and return the empty list
\* for an absent word
C8_DerivedQueriesNeverRaise ==
  (pc = "done" /\ out.op \in {"getRhymes", "getVowelMatches"} /\ AllEntriesValid)
    => /\ out.exc = "none"
       /\ Absent(out.arg) => out.val = <<>>

\* C9: decodePhonemeByte fails for every code unit outside 128..166, and
\* decodePronunciation for every buffer that holds such a unit
C9_DecodeRejectsOutOfRange ==
  /\ (out.op = "decodePhonemeByte" /\ out.arg \notin ValidUnits) => out.exc # "none"
  /\ (out.op = "decodePronunciation" /\ \E i \in 1..Len(out.arg) : out.arg[i] \notin ValidUnits)
       => out.exc # "none"

\* C10: a normalised word is its own normalisation
C10_SanitizeIdempotent ==
  out.op = "sanitizeWord" => sanitizeWord(out.val) = out.val

====
